---- MODULE Spec2Model ----
(***************************************************************************)
(* A model of the segregated-free-list allocator of src/src/sfmm.c.        *)
(*                                                                         *)
(* Memory is modelled word by word (8-byte words).  A word is a record     *)
(* [hi, lo] of its two 32-bit halves, exactly as the code splits a header  *)
(* into payload size (high half) and block_size|flags (low half).          *)
(* Addresses are byte offsets from sf_mem_start().  The free-list          *)
(* sentinels (a global array) live at negative offsets, far from the heap. *)
(* A word of the heap that the allocator never wrote holds `fill', the     *)
(* content the page provider handed out; it is chosen once, in Init.       *)
(*                                                                         *)
(* Each C function is an operator from a machine state record to a machine *)
(* state record.  The field st is "ok" while the process runs, "abort"     *)
(* after abort(), "segv" after an access outside the heap and the          *)
(* sentinels, "hang" after a list scan that can never end.  Every operator *)
(* leaves a machine that is not "ok" untouched, so sequencing is function  *)
(* composition.  A local of the C code is bound with Let, which evaluates  *)
(* its value once, in the order the code computes it.                      *)
(***************************************************************************)
EXTENDS Integers, Sequences, FiniteSets, Bags, TLC

\* ---------------------------------------------------------------- bounds
\* Number of pages the page provider can hand out before sf_mem_grow fails.
MaxPages == 2
\* Number of blocks the caller may obtain (sf_malloc, growing sf_realloc).
MaxAllocs == 3
\* Number of blocks the caller of InitQuick may obtain: QUICK_LIST_MAX + 1.
MaxAllocsQuick == 6
\* Number of sf_realloc calls the caller makes.
MaxReallocs == 1

\* ------------------------------------------------- constants of sfmm.h
PAGE_SZ == 4096
NUM_FREE_LISTS == 10
NUM_QUICK_LISTS == 10
QUICK_LIST_MAX == 5
THIS_BLOCK_ALLOCATED == 1
IN_QUICK_LIST == 4
\* The obfuscation mask, MAGIC: one fixed 64-bit value, as two halves.
MAGIC_HI == 23130
MAGIC_LO == 42405
\* errno values (asm-generic/errno-base.h)
ENOMEM == 12
EINVAL == 22

\* ------------------------------------------------------------- words
Word(h, l) == [hi |-> h, lo |-> l]
ZeroWord == Word(0, 0)
\* LET x == e IN body, with e evaluated once: Let(e, [x \in Any |-> body])
Let(e, f) == f[e]

\* The weights of the bits of a half below its top bit, and the bits set
\* in x.  A half with its top bit set is kept as the negative number it is
\* in two's complement.
BitWeights == { 2^i : i \in 0 .. 30 }
\* x & m, for a mask m that is one bit (a power of two)
HasBit(x, m) == (x \div m) % 2 = 1
BitsOf(x) == { p \in BitWeights : HasBit(x, p) }
SumOf(S) == BagCardinality([p \in S |-> p])
\* a & b, for a mask b >= 0 given as the set of its bits
BitAnd(a, bits) == SumOf({ p \in bits : HasBit(a, p) })
\* a | b, for a, b >= 0
BitOr(a, b) == a + b - BitAnd(a, BitsOf(b))
\* x & ~m, for a mask m that is one bit
ClearBit(x, m) == IF HasBit(x, m) THEN x - m ELSE x
\* x & ~0xF
MaskLow4(x) == x - (x % 16)

\* w ^ MAGIC: a ^ b is a + b - 2 * (a & b)
MagicHiBits == BitsOf(MAGIC_HI)
MagicLoBits == BitsOf(MAGIC_LO)
XorMagic(w0) ==
  Let(w0, [w \in Any |->
    Word(w.hi + MAGIC_HI - 2 * BitAnd(w.hi, MagicHiBits),
         w.lo + MAGIC_LO - 2 * BitAnd(w.lo, MagicLoBits))])


\* The value of a 64-bit size as an offset: anything with a non-zero high
\* half is beyond every address of the model.
FAR == 1073741824
Num(w) == IF w.hi = 0 THEN w.lo ELSE FAR

\* ---------------------------------------------------------- addresses
\* The address of NULL and of a pointer that points nowhere, as offsets.
NULLA == 0 - (FAR \div 2)
WILD == 0 - (FAR \div 4)
\* sizeof(sf_block): header, links.next, links.prev
SizeofSfBlock == 24
\* &sf_free_list_heads[i]
SentBase == 0 - 65536
Sentinel(i) == SentBase + SizeofSfBlock * i
SentWords == { Sentinel(i) + o : i \in 0 .. NUM_FREE_LISTS - 1, o \in {0, 8, 16} }

\* A pointer as the word stored in memory, and back.  The heap sits at
\* absolute address PTR_HI * 2^32 + PTR_LO; NULL is the zero word.
PTR_HI == 21845
PTR_LO == 1048576
PtrWord(a) == IF a = NULLA THEN ZeroWord ELSE Word(PTR_HI, PTR_LO + a)
AddrOf(w) ==
  IF w = ZeroWord THEN NULLA
  ELSE IF w.hi = PTR_HI /\ w.lo % 8 = 0 THEN w.lo - PTR_LO
  ELSE WILD

VARIABLES
  mem,      \* address -> word, for the words written so far
  ql,       \* sf_quick_lists: index -> [length, first]
  hend,     \* sf_mem_end() - sf_mem_start()
  cur,      \* sf_current_payload
  peak,     \* sf_peak_payload
  errno,    \* sf_errno
  st,       \* "ok" | "abort" | "segv" | "hang"
  fill,     \* content of heap words nobody wrote yet
  cap,      \* pages the page provider can still supply in total
  sizes,    \* request sizes the caller uses
  maxallocs, \* blocks the caller may obtain
  live,     \* bag of [p, n]: pointers the caller holds, with the size asked
  nalloc,   \* blocks handed out so far
  nrealloc, \* sf_realloc calls so far
  last      \* the last public call: [op, p, n, ret]

vars == <<mem, ql, hend, cur, peak, errno, st, fill, cap, sizes, maxallocs, live, nalloc, nrealloc, last>>

\* ------------------------------------------------------------ machine
\* The machine state the C functions work on, as one record.
Machine ==
  [mem |-> mem, ql |-> ql, hend |-> hend, cur |-> cur, peak |-> peak,
   errno |-> errno, st |-> st, ret |-> NULLA]

Ok(m) == m.st = "ok"
Abort(m) == [m EXCEPT !.st = "abort"]
Crash(m) == [m EXCEPT !.st = "segv"]
Hang(m) == [m EXCEPT !.st = "hang"]
Ret(m, a) == [m EXCEPT !.ret = a]

\* An address the process may touch: a word of the heap or of a sentinel.
Mapped(m, a) == (a >= 0 /\ a % 8 = 0 /\ a + 8 <= m.hend) \/ a \in SentWords

\* *(uint64_t *)a
Load(m, a) == IF a \in DOMAIN m.mem THEN m.mem[a] ELSE fill

\* *(uint64_t *)a = w
Store(m, a, w) ==
  IF ~Ok(m) THEN m
  ELSE IF ~Mapped(m, a) THEN Crash(m)
  ELSE [m EXCEPT !.mem = (a :> w) @@ @]

\* A size_t the caller passes is kept as the signed representative of its
\* value modulo 2^64: SIZE_MAX is -1.  Unsigned a < b on representatives:
ULT(a, b) == IF (a < 0) = (b < 0) THEN a < b ELSE b < 0

\* The two counters are 64-bit values kept as four 16-bit limbs, least
\* significant first.
Limb == 65536
Zero64 == <<0, 0, 0, 0>>
\* the counter value of a size_t representative
U64(n) ==
  <<n % Limb, (n \div Limb) % Limb,
    IF n < 0 THEN Limb - 1 ELSE 0, IF n < 0 THEN Limb - 1 ELSE 0>>
\* header >> 32: the high half, zero-extended
U64ofHi(h) == <<h % Limb, (h \div Limb) % Limb, 0, 0>>
\* a + b modulo 2^64
Add64(a, b) ==
  LET s1 == a[1] + b[1]
      s2 == a[2] + b[2] + (s1 \div Limb)
      s3 == a[3] + b[3] + (s2 \div Limb)
      s4 == a[4] + b[4] + (s3 \div Limb)
  IN  <<s1 % Limb, s2 % Limb, s3 % Limb, s4 % Limb>>
\* a - b modulo 2^64
Sub64(a, b) ==
  Add64(Add64(a, <<Limb - 1 - b[1], Limb - 1 - b[2], Limb - 1 - b[3], Limb - 1 - b[4]>>),
        <<1, 0, 0, 0>>)
\* a > b, unsigned
UGT(a, b) ==
  \/ a[4] > b[4]
  \/ a[4] = b[4] /\ a[3] > b[3]
  \/ a[4] = b[4] /\ a[3] = b[3] /\ a[2] > b[2]
  \/ a[4] = b[4] /\ a[3] = b[3] /\ a[2] = b[2] /\ a[1] > b[1]

\* header & ~0xF as a 64-bit value (the high half stays)
Size64(w) == Word(w.hi, MaskLow4(w.lo))

\* sf_mem_grow(): one more page, or NULL
sf_mem_grow(m) ==
  IF m.hend + PAGE_SZ <= cap * PAGE_SZ
    THEN [m EXCEPT !.hend = @ + PAGE_SZ, !.ret = m.hend]
    ELSE Ret(m, NULLA)

RECURSIVE IndexLoop(_, _, _)
IndexLoop(current_class_size, current_index, total_block_size) ==
  IF ULT(current_class_size, total_block_size) /\ current_index < NUM_FREE_LISTS - 1
    THEN IndexLoop(2 * current_class_size, current_index + 1, total_block_size)
    ELSE current_index

get_free_list_index_for_size(total_block_size) ==
  IF ~ULT(32, total_block_size) THEN 0 ELSE IndexLoop(32, 0, total_block_size)

calculate_aligned_block_size(requested_payload_size) ==
  LET size_aligned_to_16 == MaskLow4(requested_payload_size + 8 + 8 + 15)
  IN  IF ULT(size_aligned_to_16, 32) THEN 32 ELSE size_aligned_to_16

initialize_all_free_list_sentinels(m) ==
  [m EXCEPT !.mem =
     [a \in DOMAIN m.mem \cup SentWords |->
        IF a \in SentWords
          THEN IF (a - SentBase) % SizeofSfBlock = 0
                 THEN ZeroWord
                 ELSE PtrWord(a - ((a - SentBase) % SizeofSfBlock))
          ELSE m.mem[a]]]

initialize_all_quick_lists(m) ==
  [m EXCEPT !.ql = [i \in 0 .. NUM_QUICK_LISTS - 1 |-> [length |-> 0, first |-> ZeroWord]]]

insert_block_into_free_list(m, free_block) ==
  IF ~Ok(m) THEN m
  ELSE IF ~Mapped(m, free_block) THEN Crash(m)
  ELSE
    Let(Size64(XorMagic(Load(m, free_block))), [block_size \in Any |->
    Let(XorMagic(block_size), [new_header \in Any |->
    Let(Store(m, free_block, new_header), [m1 \in Any |->
    Let(Store(m1, free_block + Num(block_size) - 8, new_header), [m2 \in Any |->
    Let(Sentinel(get_free_list_index_for_size(Num(block_size))), [sentinel \in Any |->
    Let(Store(m2, free_block + 8, Load(m2, sentinel + 8)), [m3 \in Any |->
    Let(Store(m3, free_block + 16, PtrWord(sentinel)), [m4 \in Any |->
    Let(Store(m4, AddrOf(Load(m4, sentinel + 8)) + 16, PtrWord(free_block)), [m5 \in Any |->
    Store(m5, sentinel + 8, PtrWord(free_block))])])])])])])])])

remove_block_from_free_list(m, block_to_remove) ==
  IF ~Ok(m) THEN m
  ELSE IF block_to_remove = NULLA THEN Abort(m)
  ELSE IF ~Mapped(m, block_to_remove + 8) \/ ~Mapped(m, block_to_remove + 16) THEN Crash(m)
  ELSE
    Let(Load(m, block_to_remove + 16), [previous_block \in Any |->
    Let(Load(m, block_to_remove + 8), [next_block \in Any |->
    IF previous_block = ZeroWord \/ next_block = ZeroWord THEN Abort(m)
    ELSE
      Let(IF AddrOf(previous_block) # block_to_remove
            THEN Store(m, AddrOf(previous_block) + 8, next_block)
            ELSE m, [m1 \in Any |->
      IF AddrOf(next_block) # block_to_remove
        THEN Store(m1, AddrOf(next_block) + 16, previous_block)
        ELSE m1])])])

\* The scan of find_first_free_block_that_fits from node current_block of
\* list current_index.  A list whose links never lead back to its sentinel
\* is scanned for ever: the scan gives up after more nodes than there are
\* words to hold them.
\* Nodes one list is scanned for before the scan is known to run in a cycle.
ScanFuel == 64

RECURSIVE ScanFreeLists(_, _, _, _, _)
ScanFreeLists(m, current_index, current_block, required, fuel) ==
  IF current_block = Sentinel(current_index)
    THEN IF current_index + 1 >= NUM_FREE_LISTS
           THEN Ret(m, NULLA)
           ELSE Let(current_index + 1, [next_index \in Any |->
                Let(AddrOf(Load(m, Sentinel(next_index) + 8)), [first \in Any |->
                ScanFreeLists(m, next_index, first, required, ScanFuel)])])
  ELSE IF ~Mapped(m, current_block) THEN Crash(m)
  ELSE IF fuel = 0 THEN Hang(m)
  ELSE IF ~ULT(Num(Size64(XorMagic(Load(m, current_block)))), required)
    THEN Ret(m, current_block)
  ELSE IF ~Mapped(m, current_block + 8) THEN Crash(m)
  ELSE Let(AddrOf(Load(m, current_block + 8)), [next \in Any |->
       Let(fuel - 1, [left \in Any |->
       ScanFreeLists(m, current_index, next, required, left)])])

\* find_first_free_block_that_fits that starts one list too far up.
find_skipping_first_list(m, required_total_block_size) ==
  IF ~Ok(m) THEN m
  ELSE
    Let(get_free_list_index_for_size(required_total_block_size), [starting_list_index \in Any |->
    ScanFreeLists(m, starting_list_index, Sentinel(starting_list_index),
                  required_total_block_size, ScanFuel)])

find_first_free_block_that_fits(m, required_total_block_size) ==
  IF ~Ok(m) THEN m
  ELSE
    Let(get_free_list_index_for_size(required_total_block_size), [starting_list_index \in Any |->
    Let(AddrOf(Load(m, Sentinel(starting_list_index) + 8)), [first \in Any |->
    ScanFreeLists(m, starting_list_index, first, required_total_block_size, ScanFuel)])])

\* split_free_block_if_necessary that never splits.
split_never(m, free_block, needed_size) == m

\* A free block whose decoded size has a non-zero high half cannot be a
\* block of the heap; the footer the split would write
\* lies beyond every mapped address.
split_free_block_if_necessary(m, free_block, needed_size) ==
  IF ~Ok(m) THEN m
  ELSE
    Let(Size64(XorMagic(Load(m, free_block))), [free_block_total_size \in Any |->
    Let(Num(free_block_total_size) - needed_size, [remaining_block_size \in Any |->
    IF remaining_block_size < 32 THEN m
    ELSE IF free_block_total_size.hi # 0 THEN Crash(m)
    ELSE
      Let(free_block + needed_size, [new_free_block \in Any |->
      Let(XorMagic(Word(0, remaining_block_size)), [new_free_header \in Any |->
      Let(Store(m, new_free_block, new_free_header), [m1 \in Any |->
      Let(Store(m1, new_free_block + remaining_block_size - 8, new_free_header), [m2 \in Any |->
      Let(insert_block_into_free_list(m2, new_free_block), [m3 \in Any |->
      Let(XorMagic(Word(needed_size - 16, BitOr(needed_size, THIS_BLOCK_ALLOCATED))),
          [alloc_header \in Any |->
      Let(Store(m3, free_block, alloc_header), [m4 \in Any |->
      Store(m4, free_block + needed_size - 8, alloc_header)])])])])])])])])])

mark_block_as_allocated(m, allocated_block, final_size, requested_payload_size) ==
  IF ~Ok(m) THEN m
  ELSE IF ~Mapped(m, allocated_block) THEN Crash(m)
  ELSE
    Let(XorMagic(Load(m, allocated_block)).lo % 16, [flags \in Any |->
    Let(XorMagic(Word(requested_payload_size,
                      BitOr(final_size,
                            BitOr(IF HasBit(flags, IN_QUICK_LIST) THEN IN_QUICK_LIST ELSE 0,
                                  THIS_BLOCK_ALLOCATED)))), [new_header \in Any |->
    Let(Store(m, allocated_block, new_header), [m1 \in Any |->
    Let(Store(m1, allocated_block + final_size - 8, new_header), [m2 \in Any |->
    Let(allocated_block + final_size, [next_block \in Any |->
    Let(IF next_block < m2.hend
          THEN Let(XorMagic(Load(m2, next_block)), [next_unmasked \in Any |->
                 Store(m2, next_block,
                       XorMagic(Word(next_unmasked.hi,
                                     ClearBit(next_unmasked.lo, IN_QUICK_LIST))))])
          ELSE m2, [m3 \in Any |->
    IF ~Ok(m3) THEN m3
    ELSE
      Let(Add64(m.cur, U64(requested_payload_size)), [current \in Any |->
      [m3 EXCEPT !.cur = current,
                 !.peak = IF UGT(current, m.peak) THEN current ELSE m.peak]])])])])])])])

extend_heap_by_one_page(m) ==
  IF ~Ok(m) THEN m
  ELSE
    Let(sf_mem_grow(m), [g \in Any |->
    IF g.ret = NULLA THEN [g EXCEPT !.errno = ENOMEM]
    ELSE
      Let(g.ret - 8, [new_free_block \in Any |->
      Let(XorMagic(Load(g, new_free_block - 8)), [prev_header_unmasked \in Any |->
      Let(~HasBit(prev_header_unmasked.lo, THIS_BLOCK_ALLOCATED), [merge \in Any |->
      Let(Size64(prev_header_unmasked), [prev_block_size \in Any |->
      Let(new_free_block - Num(prev_block_size), [prev_block \in Any |->
      Let(IF merge THEN PAGE_SZ + Num(prev_block_size) ELSE PAGE_SZ, [new_block_size \in Any |->
      Let(IF merge THEN remove_block_from_free_list(g, prev_block) ELSE g, [g1 \in Any |->
      Let(IF merge THEN prev_block ELSE new_free_block, [final_free_block \in Any |->
      Let(XorMagic(Word(0, new_block_size)), [new_header \in Any |->
      Let(Store(g1, final_free_block, new_header), [g2 \in Any |->
      Let(Store(g2, final_free_block + new_block_size - 8, new_header), [g3 \in Any |->
      Let(Store(g3, g.hend - 8, XorMagic(Word(0, BitOr(8, THIS_BLOCK_ALLOCATED)))),
          [g4 \in Any |->
      Ret(insert_block_into_free_list(g4, final_free_block),
          final_free_block)])])])])])])])])])])])])])

coalesce_adjacent_free_blocks(m, target_free_block) ==
  IF ~Ok(m) THEN m
  ELSE IF target_free_block = NULLA THEN Abort(m)
  ELSE IF ~Mapped(m, target_free_block) THEN Crash(m)
  ELSE
    Let(MaskLow4(XorMagic(Load(m, target_free_block)).lo), [original_size \in Any |->
    IF original_size < 32 \/ original_size % 16 # 0 THEN Abort(m)
    ELSE
      Let(XorMagic(Load(m, target_free_block - 8)).lo, [prev_lower \in Any |->
      Let(MaskLow4(prev_lower), [prev_size \in Any |->
      Let(/\ target_free_block > 32
          /\ target_free_block - 8 >= 0
          /\ prev_size >= 32
          /\ prev_size % 16 = 0
          /\ ~HasBit(prev_lower, THIS_BLOCK_ALLOCATED), [back \in Any |->
      Let(IF back THEN target_free_block - prev_size ELSE target_free_block,
          [base_block \in Any |->
      Let(IF back THEN remove_block_from_free_list(m, base_block) ELSE m, [m1 \in Any |->
      Let(IF back THEN original_size + prev_size ELSE original_size, [size1 \in Any |->
      Let(base_block + size1, [next_block \in Any |->
      Let(next_block + 8 <= m.hend, [peek \in Any |->
      IF ~Ok(m1) THEN m1
      ELSE IF peek /\ ~Mapped(m1, next_block) THEN Crash(m1)
      ELSE
        Let(XorMagic(Load(m1, next_block)).lo, [next_lower \in Any |->
        Let(MaskLow4(next_lower), [next_size \in Any |->
        Let(/\ peek
            /\ next_size >= 32
            /\ next_size % 16 = 0
            /\ ~HasBit(next_lower, THIS_BLOCK_ALLOCATED), [fwd \in Any |->
        Let(IF fwd THEN remove_block_from_free_list(m1, next_block) ELSE m1, [m2 \in Any |->
        Let(IF fwd THEN size1 + next_size ELSE size1, [total_size \in Any |->
        Let(XorMagic(Word(0, total_size)), [new_header \in Any |->
        Let(Store(m2, base_block, new_header), [m3 \in Any |->
        Let(base_block + total_size - 8, [footer_loc \in Any |->
        IF ~Ok(m3) THEN m3
        ELSE IF footer_loc < m.hend
          THEN Ret(Store(m3, footer_loc, new_header), base_block)
          ELSE Abort(m3)])])])])])])])])])])])])])])])])])

RECURSIVE flush_quick_list(_, _)
flush_quick_list(m, ql_index) ==
  IF ~Ok(m) THEN m
  ELSE IF ~(m.ql[ql_index].length > 0) THEN m
  ELSE
    Let(AddrOf(m.ql[ql_index].first), [block \in Any |->
    IF ~Mapped(m, block) \/ ~Mapped(m, block + 8) THEN Crash(m)
    ELSE
      Let([m EXCEPT !.ql[ql_index] =
             [length |-> @.length - 1, first |-> Load(m, block + 8)]], [m1 \in Any |->
      Let(Size64(XorMagic(Load(m, block))), [block_size \in Any |->
      Let(XorMagic(block_size), [free_header \in Any |->
      Let(Store(m1, block, free_header), [m2 \in Any |->
      Let(block + Num(block_size) - 8, [footer \in Any |->
      Let(IF footer >= 0 /\ footer < m.hend
            THEN Store(m2, footer, free_header)
            ELSE Abort(m2), [m3 \in Any |->
      Let(coalesce_adjacent_free_blocks(m3, block), [m4 \in Any |->
      Let(insert_block_into_free_list(m4, m4.ret), [m5 \in Any |->
      flush_quick_list(m5, ql_index)])])])])])])])])])

initialize_heap_during_first_call_to_sf_malloc(m) ==
  Let(sf_mem_grow(m), [g \in Any |->
  IF g.ret = NULLA THEN [g EXCEPT !.errno = ENOMEM]
  ELSE
    Let(initialize_all_free_list_sentinels(g), [s \in Any |->
    Let(initialize_all_quick_lists(s), [g1 \in Any |->
    Let(g.ret, [heap_start \in Any |->
    Let(heap_start + 8, [prologue_block \in Any |->
    Let(Store(g1, prologue_block, XorMagic(Word(0, BitOr(32, THIS_BLOCK_ALLOCATED)))),
        [g2 \in Any |->
    Let(PAGE_SZ - 32 - 8, [initial_free_block_size \in Any |->
    Let(prologue_block + 32, [initial_free_block \in Any |->
    Let(XorMagic(Word(0, initial_free_block_size)), [free_block_header \in Any |->
    Let(Store(g2, initial_free_block, free_block_header), [g3 \in Any |->
    Let(Store(g3, initial_free_block + initial_free_block_size - 8, free_block_header),
        [g4 \in Any |->
    Let(Store(g4, g.hend - 8, XorMagic(Word(0, BitOr(8, THIS_BLOCK_ALLOCATED)))),
        [g5 \in Any |->
    insert_block_into_free_list(g5, initial_free_block)])])])])])])])])])])])])

\* The while loop of sf_malloc run as a do-while of one round: the heap is
\* extended once whether or not a block was chosen.
ExtendOnePageMore(m, required_block_size) ==
  IF ~Ok(m) THEN m
  ELSE
    Let(extend_heap_by_one_page(m), [e \in Any |->
    IF ~Ok(e) THEN e
    ELSE IF e.ret = NULLA THEN (IF m.ret # NULLA THEN m ELSE [e EXCEPT !.errno = ENOMEM])
    ELSE find_first_free_block_that_fits(e, required_block_size)])

\* The while loop of sf_malloc, entered with chosen_block in m.ret.
RECURSIVE ExtendUntilFit(_, _)
ExtendUntilFit(m, required_block_size) ==
  IF ~Ok(m) \/ m.ret # NULLA THEN m
  ELSE
    Let(extend_heap_by_one_page(m), [e \in Any |->
    IF ~Ok(e) THEN e
    ELSE IF e.ret = NULLA THEN [e EXCEPT !.errno = ENOMEM]
    ELSE
      Let(find_first_free_block_that_fits(e, required_block_size), [f \in Any |->
      ExtendUntilFit(f, required_block_size)])])

\* sf_malloc with the bootstrap done before the zero-size test.
sf_malloc_bootstrap_first(m, requested_size) ==
  IF ~Ok(m) THEN m
  ELSE Ret(IF m.hend = 0 THEN initialize_heap_during_first_call_to_sf_malloc(m) ELSE m,
           NULLA)

\* sf_malloc with a quick-list lookup: a request whose block size has a
\* non-empty quick list is served from the head of that list.
sf_malloc_quick_lookup(m, requested_size) ==
  IF ~Ok(m) THEN m
  ELSE IF requested_size = 0 THEN Ret(m, NULLA)
  ELSE
    Let(IF m.hend = 0 THEN initialize_heap_during_first_call_to_sf_malloc(m) ELSE m,
        [m1 \in Any |->
    Let(calculate_aligned_block_size(requested_size), [required_block_size \in Any |->
    Let((required_block_size - 32) \div 16, [ql_index \in Any |->
    IF /\ Ok(m1) /\ ql_index >= 0 /\ ql_index < NUM_QUICK_LISTS
       /\ m1.ql[ql_index].length > 0
      THEN
        Let(AddrOf(m1.ql[ql_index].first), [quick_block \in Any |->
        Let([m1 EXCEPT !.ql[ql_index] =
               [length |-> @.length - 1, first |-> Load(m1, quick_block + 8)]],
            [q1 \in Any |->
        Let(mark_block_as_allocated(q1, quick_block, required_block_size, requested_size),
            [q2 \in Any |->
        Ret(q2, quick_block + 8)])])])
      ELSE
        Let(find_first_free_block_that_fits(m1, required_block_size), [f \in Any |->
        Let(ExtendUntilFit(f, required_block_size), [m2 \in Any |->
        IF ~Ok(m2) \/ m2.ret = NULLA THEN m2
        ELSE
          Let(m2.ret, [chosen_block \in Any |->
          Let(split_free_block_if_necessary(m2, chosen_block, required_block_size),
              [m3 \in Any |->
          Let(remove_block_from_free_list(m3, chosen_block), [m4 \in Any |->
          Let(mark_block_as_allocated(m4, chosen_block, required_block_size, requested_size),
              [m5 \in Any |->
          Ret(m5, chosen_block + 8)])])])])])])])])])

sf_malloc(m, requested_size) ==
  IF ~Ok(m) THEN m
  ELSE IF requested_size = 0 THEN Ret(m, NULLA)
  ELSE
    Let(IF m.hend = 0 THEN initialize_heap_during_first_call_to_sf_malloc(m) ELSE m,
        [m1 \in Any |->
    Let(calculate_aligned_block_size(requested_size), [required_block_size \in Any |->
    Let(find_first_free_block_that_fits(m1, required_block_size), [f \in Any |->
    Let(ExtendUntilFit(f, required_block_size), [m2 \in Any |->
    IF ~Ok(m2) \/ m2.ret = NULLA THEN m2
    ELSE
      Let(m2.ret, [chosen_block \in Any |->
      Let(split_free_block_if_necessary(m2, chosen_block, required_block_size),
          [m3 \in Any |->
      Let(remove_block_from_free_list(m3, chosen_block), [m4 \in Any |->
      Let(mark_block_as_allocated(m4, chosen_block, required_block_size, requested_size),
          [m5 \in Any |->
      Ret(m5, chosen_block + 8)])])])])])])])])

\* sf_free without the quick lists: every block is freed, coalesced and put
\* on a free list.
sf_free_without_quick_lists(m, pp) ==
  IF ~Ok(m) THEN m
  ELSE IF pp = NULLA THEN m
  ELSE IF ~Mapped(m, pp - 8) THEN Crash(m)
  ELSE
    Let(pp - 8, [block \in Any |->
    Let(XorMagic(Load(m, block)), [decoded_header \in Any |->
    Let(MaskLow4(decoded_header.lo), [block_size \in Any |->
    IF block_size < 32 THEN Abort(m)
    ELSE IF ~HasBit(decoded_header.lo, THIS_BLOCK_ALLOCATED) THEN Abort(m)
    ELSE IF HasBit(decoded_header.lo, IN_QUICK_LIST) THEN Abort(m)
    ELSE
      Let([m EXCEPT !.cur = Sub64(@, U64ofHi(decoded_header.hi))], [m0 \in Any |->
      Let(XorMagic(Word(0, block_size)), [new_header \in Any |->
      Let(Store(m0, block, new_header), [f1 \in Any |->
      Let(Store(f1, block + block_size - 8, new_header), [f2 \in Any |->
      Let(coalesce_adjacent_free_blocks(f2, block), [coalesced \in Any |->
      insert_block_into_free_list(coalesced, coalesced.ret)])])])])])])])])

sf_free(m, pp) ==
  IF ~Ok(m) THEN m
  ELSE IF pp = NULLA THEN m
  ELSE IF ~Mapped(m, pp - 8) THEN Crash(m)
  ELSE
    Let(pp - 8, [block \in Any |->
    Let(XorMagic(Load(m, block)), [decoded_header \in Any |->
    Let(decoded_header.hi, [payload_size \in Any |->
    Let(MaskLow4(decoded_header.lo), [block_size \in Any |->
    IF block_size < 32 \/ block_size % 16 # 0 THEN Abort(m)
    ELSE IF ~HasBit(decoded_header.lo, THIS_BLOCK_ALLOCATED) THEN Abort(m)
    ELSE IF HasBit(decoded_header.lo, IN_QUICK_LIST) THEN Abort(m)
    ELSE IF block < 0 \/ block >= m.hend THEN Abort(m)
    ELSE
      Let([m EXCEPT !.cur = Sub64(@, U64ofHi(payload_size))], [m0 \in Any |->
      Let(32 + 16 * (NUM_QUICK_LISTS - 1), [max_quick_size \in Any |->
      IF block_size <= max_quick_size
        THEN
          Let((block_size - 32) \div 16, [ql_index \in Any |->
          IF ql_index < 0 \/ ql_index >= NUM_QUICK_LISTS THEN Abort(m0)
          ELSE
            Let(IF m0.ql[ql_index].length >= QUICK_LIST_MAX
                  THEN flush_quick_list(m0, ql_index)
                  ELSE m0, [q1 \in Any |->
            Let(XorMagic(Word(payload_size,
                              BitOr(block_size,
                                    BitOr(THIS_BLOCK_ALLOCATED, IN_QUICK_LIST)))),
                [new_header \in Any |->
            Let(Store(q1, block, new_header), [q2 \in Any |->
            Let(Store(q2, block + block_size - 8, new_header), [q3 \in Any |->
            Let(Store(q3, block + 8, q3.ql[ql_index].first), [q4 \in Any |->
            IF ~Ok(q4) THEN q4
            ELSE [q4 EXCEPT !.ql[ql_index] =
                    [length |-> @.length + 1, first |-> PtrWord(block)]]])])])])])])
        ELSE
          Let(XorMagic(Word(payload_size, block_size)), [new_header \in Any |->
          Let(Store(m0, block, new_header), [f1 \in Any |->
          Let(block + block_size - 8, [footer \in Any |->
          Let(IF footer >= 0 /\ footer < m.hend
                THEN Store(f1, footer, new_header)
                ELSE Abort(f1), [f2 \in Any |->
          Let(coalesce_adjacent_free_blocks(f2, block), [coalesced \in Any |->
          IF Ok(coalesced) /\ coalesced.ret = NULLA THEN Abort(coalesced)
          ELSE insert_block_into_free_list(coalesced, coalesced.ret)])])])])])])])])])])])

\* The word that memcpy leaves where only the first k bytes (k in 1..7) of
\* the source word s are copied over the destination word d (little endian).
PartialWord(s, d, k) ==
  LET p == IF k % 4 = 1 THEN 256 ELSE IF k % 4 = 2 THEN 65536 ELSE 16777216
  IN  IF k < 4 THEN Word(d.hi, (s.lo % p) + (d.lo - (d.lo % p)))
      ELSE IF k = 4 THEN Word(d.hi, s.lo)
      ELSE Word((s.hi % p) + (d.hi - (d.hi % p)), s.lo)

\* memcpy(dst, src, n), word by word; only words that hold something other
\* than the heap's fill on either side need a visit.
memcpy(m, dst, src, n) ==
  IF ~Ok(m) THEN m
  ELSE IF n = 0 THEN m
  ELSE
    Let((n + 7) \div 8, [nwords \in Any |->
    IF \/ ~Mapped(m, src) \/ ~Mapped(m, src + 8 * (nwords - 1))
       \/ ~Mapped(m, dst) \/ ~Mapped(m, dst + 8 * (nwords - 1))
      THEN Crash(m)
      ELSE
        Let({ (a - src) \div 8 : a \in { x \in DOMAIN m.mem : x >= src /\ x < src + 8 * nwords } }
            \cup { (a - dst) \div 8 : a \in { x \in DOMAIN m.mem : x >= dst /\ x < dst + 8 * nwords } },
            [idx \in Any |->
        Let([i \in idx |->
               IF 8 * i + 8 <= n THEN Load(m, src + 8 * i)
               ELSE PartialWord(Load(m, src + 8 * i), Load(m, dst + 8 * i), n % 8)],
            [copied \in Any |->
        [m EXCEPT !.mem =
           [a \in DOMAIN m.mem \cup { dst + 8 * i : i \in idx } |->
              IF a >= dst /\ a < dst + 8 * nwords /\ (a - dst) \div 8 \in idx
                THEN copied[(a - dst) \div 8]
                ELSE m.mem[a]]]])])])

\* sf_realloc that hands the pointer back without rewriting the header.
sf_realloc_header_untouched(m, pp, rsize) ==
  IF ~Ok(m) THEN m
  ELSE IF pp = NULLA THEN sf_malloc(m, rsize)
  ELSE IF rsize = 0 THEN Ret(sf_free(m, pp), NULLA)
  ELSE Ret(m, pp)

\* sf_realloc that never resizes in place: it allocates, copies and frees.
sf_realloc_always_moves(m, pp, rsize) ==
  IF ~Ok(m) THEN m
  ELSE IF pp = NULLA THEN sf_malloc(m, rsize)
  ELSE IF rsize = 0 THEN Ret(sf_free(m, pp), NULLA)
  ELSE IF ~Mapped(m, pp - 8) THEN Crash(m)
  ELSE
    Let(XorMagic(Load(m, pp - 8)).hi, [old_payload \in Any |->
    Let(sf_malloc(m, rsize), [g1 \in Any |->
    IF ~Ok(g1) THEN g1
    ELSE IF g1.ret = NULLA THEN [g1 EXCEPT !.errno = ENOMEM]
    ELSE
      Let(g1.ret, [new_pp \in Any |->
      Let(memcpy(g1, new_pp, pp, IF old_payload < rsize THEN old_payload ELSE rsize),
          [g2 \in Any |->
      Ret(sf_free(g2, pp), new_pp)])])])])

sf_realloc(m, pp, rsize) ==
  IF ~Ok(m) THEN m
  ELSE IF pp = NULLA THEN sf_malloc(m, rsize)
  ELSE IF rsize = 0 THEN Ret(sf_free(m, pp), NULLA)
  ELSE IF pp < 40 \/ pp >= m.hend THEN [m EXCEPT !.errno = EINVAL, !.ret = NULLA]
  ELSE
    Let(pp - 8, [block \in Any |->
    Let(XorMagic(Load(m, block)), [decoded_header \in Any |->
    IF ~HasBit(decoded_header.lo, THIS_BLOCK_ALLOCATED)
       \/ HasBit(decoded_header.lo, IN_QUICK_LIST)
      THEN [m EXCEPT !.errno = EINVAL, !.ret = NULLA]
    ELSE
      Let(MaskLow4(decoded_header.lo), [old_size \in Any |->
      Let(decoded_header.hi, [old_payload \in Any |->
      Let(calculate_aligned_block_size(rsize), [new_size \in Any |->
      Let(Add64(Sub64(m.cur, U64ofHi(old_payload)), U64(rsize)), [current \in Any |->
      Let([m EXCEPT !.cur = current,
                    !.peak = IF UGT(current, m.peak) THEN current ELSE m.peak],
          [counted \in Any |->
      IF new_size = old_size
        THEN Ret(Store(counted, block,
                       XorMagic(Word(rsize, BitOr(old_size, THIS_BLOCK_ALLOCATED)))), pp)
      ELSE IF ULT(new_size, old_size)
        THEN
          Let(old_size - new_size, [leftover_size \in Any |->
          IF leftover_size >= 32
            THEN
              Let(XorMagic(Word(rsize, BitOr(new_size, THIS_BLOCK_ALLOCATED))),
                  [resized_header \in Any |->
              Let(Store(counted, block, resized_header), [s1 \in Any |->
              Let(Store(s1, block + new_size - 8, resized_header), [s2 \in Any |->
              Let(block + new_size, [leftover_block \in Any |->
              Let(XorMagic(Word(0, leftover_size)), [leftover_header \in Any |->
              Let(Store(s2, leftover_block, leftover_header), [s3 \in Any |->
              Let(Store(s3, leftover_block + leftover_size - 8, leftover_header),
                  [s4 \in Any |->
              Let(coalesce_adjacent_free_blocks(s4, leftover_block), [coalesced \in Any |->
              Ret(insert_block_into_free_list(coalesced, coalesced.ret),
                  pp)])])])])])])])])
            ELSE Ret(Store(counted, block,
                           XorMagic(Word(rsize, BitOr(old_size, THIS_BLOCK_ALLOCATED)))),
                     pp)])
      ELSE
        Let(sf_malloc(m, rsize), [g1 \in Any |->
        IF ~Ok(g1) THEN g1
        ELSE IF g1.ret = NULLA THEN [g1 EXCEPT !.errno = ENOMEM]
        ELSE
          Let(g1.ret, [new_pp \in Any |->
          Let(memcpy(g1, new_pp, pp, IF old_payload < 0 THEN FAR ELSE old_payload),
              [g2 \in Any |->
          Ret(sf_free(g2, pp), new_pp)])])])])])])])])])])


\* A double that is the quotient of two small naturals, kept as the fraction
\* in lowest terms; 0.0 is <<0, 1>>.  Two quotients of integers below 2^26
\* are the same double exactly when they are the same fraction.
RECURSIVE Gcd(_, _)
Gcd(a, b) == IF b = 0 THEN a ELSE Gcd(b, a % b)
Quotient(a, b) ==
  IF a = 0 THEN <<0, 1>> ELSE Let(Gcd(a, b), [g \in Any |-> <<a \div g, b \div g>>])

\* The heap walk of sf_fragmentation: the totals after the blocks from
\* current on.
RECURSIVE FragmentationWalk(_, _, _, _)
FragmentationWalk(m, current, total_payload, total_allocated_block_size) ==
  IF ~(current + 8 < m.hend) THEN <<total_payload, total_allocated_block_size>>
  ELSE
    Let(XorMagic(Load(m, current)), [header \in Any |->
    Let(MaskLow4(header.lo), [block_size \in Any |->
    IF block_size < 32 \/ block_size % 16 # 0
      THEN <<total_payload, total_allocated_block_size>>
      ELSE
        Let(IF HasBit(header.lo, THIS_BLOCK_ALLOCATED)
              THEN <<total_payload + header.hi, total_allocated_block_size + block_size>>
              ELSE <<total_payload, total_allocated_block_size>>, [t \in Any |->
        Let(current + block_size, [next \in Any |->
        FragmentationWalk(m, next, t[1], t[2])])])])])

\* The quick-list loop of sf_fragmentation: the totals after the nodes of
\* quick list i from q on and the lists after it, or the way the loop fails.
RECURSIVE FragmentationQuick(_, _, _, _, _)
FragmentationQuick(m, i, q, t, fuel) ==
  IF q = NULLA
    THEN IF i + 1 >= NUM_QUICK_LISTS
           THEN [st |-> "ok", t |-> t]
           ELSE Let(i + 1, [j \in Any |->
                Let(AddrOf(m.ql[j].first), [first \in Any |->
                FragmentationQuick(m, j, first, t, ScanFuel)])])
  ELSE IF ~Mapped(m, q) \/ ~Mapped(m, q + 8) THEN [st |-> "segv", t |-> t]
  ELSE IF fuel = 0 THEN [st |-> "hang", t |-> t]
  ELSE
    Let(XorMagic(Load(m, q)), [header \in Any |->
    Let(<<t[1] + header.hi, t[2] + MaskLow4(header.lo)>>, [t1 \in Any |->
    Let(AddrOf(Load(m, q + 8)), [next \in Any |->
    Let(fuel - 1, [left \in Any |->
    FragmentationQuick(m, i, next, t1, left)])])])])

\* sf_fragmentation(): how the call ends, and the double it returns.
sf_fragmentation(m) ==
  Let(FragmentationWalk(m, 40, 0, 0), [walked \in Any |->
  Let(FragmentationQuick(m, 0, AddrOf(m.ql[0].first), walked, ScanFuel), [r \in Any |->
  [st |-> r.st,
   val |-> IF r.t[2] = 0 THEN <<0, 1>> ELSE Quotient(r.t[1], r.t[2])]])])

\* sf_utilization(): the double it returns.  A peak of 2^31 or more is far
\* above every heap size here; the quotient is then kept as <<FAR, 1>>.
sf_utilization(m) ==
  IF m.hend = 0 THEN <<0, 1>>
  ELSE IF m.peak[2] >= Limb \div 2 \/ m.peak[3] # 0 \/ m.peak[4] # 0 THEN <<FAR, 1>>
  ELSE Let(m.peak[1] + Limb * m.peak[2], [peak_payload \in Any |->
       Quotient(peak_payload, m.hend)])

\* ------------------------------------------------------------ the caller
\* Request sizes: 0 is refused; 1 gives a 32-byte block (quick list 0);
\* 200 gives a block of 224 bytes, too large for a quick list; 4016 gives
\* a block of 4032 bytes, 16 short of the first page's free block;
\* SIZE_MAX is the largest size_t.
SIZE_MAX == -1
Sizes == {0, 1, 200, 4016, SIZE_MAX}
QuickSizes == {0, 1}
SmallSizes == {0, 1, 200}
\* What the page provider's fresh memory holds: zero bytes, or bytes that
\* decode to a 32-byte free header.
FillWords == {ZeroWord, XorMagic(Word(0, 32))}

NoCall == [op |-> "none", p |-> NULLA, n |-> 0, ret |-> NULLA]

InitMachine ==
  /\ mem = [a \in SentWords |-> ZeroWord]
  /\ ql = [i \in 0 .. NUM_QUICK_LISTS - 1 |-> [length |-> 0, first |-> ZeroWord]]
  /\ hend = 0
  /\ cur = Zero64
  /\ peak = Zero64
  /\ errno = 0
  /\ st = "ok"
  /\ fill \in FillWords
  /\ cap \in {0, MaxPages}
  /\ live = EmptyBag
  /\ nalloc = 0
  /\ nrealloc = 0
  /\ last = NoCall

Init ==
  /\ InitMachine
  /\ sizes = Sizes
  /\ maxallocs = MaxAllocs

\* A caller that asks for one-byte blocks only, often enough to fill a
\* quick list and overflow it.
InitQuick ==
  /\ InitMachine
  /\ sizes = QuickSizes
  /\ maxallocs = MaxAllocsQuick

\* A caller whose sizes never leave a 16-byte remainder in a chosen block.
InitSmall ==
  /\ InitMachine
  /\ sizes = SmallSizes
  /\ maxallocs = MaxAllocs

\* A caller that also asks for 12000 bytes, more than two pages hold: the
\* request grows the heap until the page provider refuses.
BigSizes == {0, 200, 4016, 12000}
InitBig ==
  /\ InitMachine
  /\ sizes = BigSizes
  /\ maxallocs = MaxAllocs

\* The same caller without the size that leaves a 16-byte remainder.
PlainSizes == {0, 200, 12000}
InitPlain ==
  /\ InitMachine
  /\ sizes = PlainSizes
  /\ maxallocs = MaxAllocs

\* The sizes of a caller that also passes pointers it does not hold.
MisuseSizes == {1, 200, 4016}
InitMisuse ==
  /\ InitMachine
  /\ sizes = MisuseSizes
  /\ maxallocs = MaxAllocs

\* A caller whose sizes come in pairs with one aligned block size: 1 and 10
\* give 32 bytes, 200 and 208 give 224 bytes.
SameSizes == {1, 10, 200, 208}
InitSame ==
  /\ InitMachine
  /\ sizes = SameSizes
  /\ maxallocs = MaxAllocs

\* A caller whose sizes give blocks 16 bytes apart: 1 gives 32 bytes, 20
\* gives 48, 64 gives 80, 80 gives 96, 4000 gives 4016 and 4016 gives 4032.
SplinterSizes == {1, 20, 64, 80, 4000, 4016}
InitSplinter ==
  /\ InitMachine
  /\ sizes = SplinterSizes
  /\ maxallocs = MaxAllocs

\* A caller that also asks for 5000 bytes, more than one page holds: the
\* request grows the heap to two pages.  No block is ever selected with 16
\* bytes to spare.
GrowSizes == {1, 200, 5000}
InitGrow ==
  /\ InitMachine
  /\ sizes = GrowSizes
  /\ maxallocs = MaxAllocs

\* ---------------------------------------------------------- observers
\* What a reader of the heap sees between two calls.
Hdr(a) == XorMagic(Load(Machine, a))
BlockSize(a) == MaskLow4(Hdr(a).lo)
IsAllocated(a) == HasBit(Hdr(a).lo, THIS_BLOCK_ALLOCATED)
IsInQuickList(a) == HasBit(Hdr(a).lo, IN_QUICK_LIST)
PayloadField(a) == Hdr(a).hi

\* The heap walk of sf_fragmentation: from the first block after the
\* prologue, in strides of the block size in each header.  The result is the
\* sequence of addresses visited; the last one is where the walk stops.
RECURSIVE WalkFrom(_, _)
WalkFrom(current, fuel) ==
  IF current + 8 < hend /\ fuel > 0 /\ BlockSize(current) >= 32
    THEN <<current>> \o WalkFrom(current + BlockSize(current), fuel - 1)
    ELSE <<current>>

HeapWalk == IF hend = 0 THEN <<0>> ELSE WalkFrom(40, ScanFuel)
WalkEnd == HeapWalk[Len(HeapWalk)]
Blocks == { HeapWalk[j] : j \in 1 .. Len(HeapWalk) - 1 }

\* node->body.links.next
NextNode(node) == Let(node, [a \in Any |-> AddrOf(Load(Machine, a + 8))])

\* The nodes of free list i, from the sentinel's next until the sentinel
\* comes back.
RECURSIVE FreeListFrom(_, _, _)
FreeListFrom(i, node, fuel) ==
  IF node = Sentinel(i) \/ fuel = 0 \/ ~Mapped(Machine, node) \/ ~Mapped(Machine, node + 8)
    THEN <<>>
    ELSE <<node>> \o FreeListFrom(i, NextNode(node), fuel - 1)

FreeList(i) == FreeListFrom(i, AddrOf(Load(Machine, Sentinel(i) + 8)), ScanFuel)

\* The nodes of quick list k, from first until NULL.
RECURSIVE QuickListFrom(_, _)
QuickListFrom(node, fuel) ==
  IF node = NULLA \/ fuel = 0 \/ ~Mapped(Machine, node) \/ ~Mapped(Machine, node + 8)
    THEN <<>>
    ELSE <<node>> \o QuickListFrom(NextNode(node), fuel - 1)

QuickList(k) == QuickListFrom(AddrOf(ql[k].first), ScanFuel)

Range(s) == { s[j] : j \in 1 .. Len(s) }
FreeLists == 0 .. NUM_FREE_LISTS - 1
QuickLists == 0 .. NUM_QUICK_LISTS - 1
FreeMembers == UNION { Range(FreeList(i)) : i \in FreeLists }
QuickMembers == UNION { Range(QuickList(k)) : k \in QuickLists }
\* The pointers the caller holds, and the block behind a pointer.
Held == BagToSet(live)
BlockOf(r) == r.p - 8

\* The machine after a call, back in the variables.
Commit(m) ==
  /\ mem' = m.mem
  /\ ql' = m.ql
  /\ hend' = m.hend
  /\ cur' = m.cur
  /\ peak' = m.peak
  /\ errno' = m.errno
  /\ st' = m.st
  /\ UNCHANGED <<fill, cap, sizes, maxallocs>>

\* What a call leaves in the variables, given the machine m it returned.
MallocDone(m, n) ==
  /\ Commit(m)
  /\ live' = IF Ok(m) /\ m.ret # NULLA
               THEN live (+) SetToBag({[p |-> m.ret, n |-> n]})
               ELSE live
  /\ nalloc' = IF Ok(m) /\ m.ret # NULLA THEN nalloc + 1 ELSE nalloc
  /\ nrealloc' = nrealloc
  /\ last' = [op |-> "malloc", p |-> NULLA, n |-> n, ret |-> m.ret]

FreeDone(m, r) ==
  /\ Commit(m)
  /\ live' = IF Ok(m) THEN live (-) SetToBag({r}) ELSE live
  /\ nalloc' = nalloc
  /\ nrealloc' = nrealloc
  /\ last' = [op |-> "free", p |-> r.p, n |-> r.n, ret |-> NULLA]

\* A realloc that returns another pointer has handed out a new block.
Moved(m, r) == Ok(m) /\ m.ret # NULLA /\ m.ret # r.p

ReallocDone(m, r, n) ==
  /\ Moved(m, r) => nalloc < maxallocs
  /\ Commit(m)
  /\ live' = IF ~Ok(m) THEN live
             ELSE IF n = 0 THEN live (-) SetToBag({r})
             ELSE IF m.ret = NULLA THEN live
             ELSE (live (-) SetToBag({r})) (+) SetToBag({[p |-> m.ret, n |-> n]})
  /\ nalloc' = IF Moved(m, r) THEN nalloc + 1 ELSE nalloc
  /\ nrealloc' = nrealloc + 1
  /\ last' = [op |-> "realloc", p |-> r.p, n |-> n, ret |-> m.ret]

Malloc(n) ==
  /\ st = "ok"
  /\ nalloc < maxallocs
  /\ \E m \in {sf_malloc(Machine, n)} : MallocDone(m, n)

Free(r) ==
  /\ st = "ok"
  /\ \E m \in {sf_free(Machine, r.p)} : FreeDone(m, r)

Realloc(r, n) ==
  /\ st = "ok"
  /\ nrealloc < MaxReallocs
  /\ \E m \in {sf_realloc(Machine, r.p, n)} : ReallocDone(m, r, n)

\* ------------------------------------------- a caller that breaks the rules
\* Pointers the caller does not hold: of blocks that are on a free list or a
\* quick list, the prologue's payload, the address after the epilogue, each
\* page boundary inside the heap, and for each held block the second word of
\* its payload and the word after its footer.
StalePointers == { b + 8 : b \in FreeMembers \cup QuickMembers }
PagePointers == { k * PAGE_SZ : k \in 1 .. MaxPages } \cap (0 .. hend - 1)
OddPointers ==
  { r.p + 8 : r \in Held } \cup { r.p + calculate_aligned_block_size(r.n) - 8 : r \in Held }
Candidates ==
  IF hend = 0 THEN {}
  ELSE (StalePointers \cup {16, hend} \cup PagePointers \cup OddPointers)
         \ { r.p : r \in Held }

\* The caller breaks the rules once, as its last call.
Orderly == last.op \notin {"xfree", "xrealloc"}

FreeAnyDone(m, p) ==
  /\ Commit(m)
  /\ UNCHANGED <<live, nalloc, nrealloc>>
  /\ last' = [op |-> "xfree", p |-> p, n |-> 0, ret |-> NULLA]

ReallocAnyDone(m, p, n) ==
  /\ Commit(m)
  /\ UNCHANGED <<live, nalloc, nrealloc>>
  /\ last' = [op |-> "xrealloc", p |-> p, n |-> n, ret |-> m.ret]

\* sf_free(p) for a pointer the caller does not hold
FreeAny(p) ==
  /\ st = "ok"
  /\ Orderly
  /\ \E m \in {sf_free(Machine, p)} : FreeAnyDone(m, p)

\* sf_realloc(p, n), n > 0, for a pointer the caller does not hold
ReallocAny(p, n) ==
  /\ st = "ok"
  /\ Orderly
  /\ n # 0
  /\ \E m \in {sf_realloc(Machine, p, n)} : ReallocAnyDone(m, p, n)

\* ------------------------------------------- a caller that asks for figures
\* sf_fragmentation() and sf_utilization() take no argument; the double
\* returned is kept in the record of the call.
Fragmentation ==
  /\ st = "ok"
  /\ \E r \in {sf_fragmentation(Machine)} :
       /\ st' = r.st
       /\ last' = [op |-> "fragmentation", p |-> NULLA, n |-> 0, ret |-> NULLA,
                   val |-> r.val]
  /\ UNCHANGED <<mem, ql, hend, cur, peak, errno, fill, cap, sizes, maxallocs,
                 live, nalloc, nrealloc>>

Utilization ==
  /\ st = "ok"
  /\ last' = [op |-> "utilization", p |-> NULLA, n |-> 0, ret |-> NULLA,
              val |-> sf_utilization(Machine)]
  /\ UNCHANGED <<mem, ql, hend, cur, peak, errno, st, fill, cap, sizes, maxallocs,
                 live, nalloc, nrealloc>>

Next ==
  \/ \E n \in sizes : Malloc(n)
  \/ \E r \in BagToSet(live) : Free(r)
  \/ \E r \in BagToSet(live) : \E n \in sizes : Realloc(r, n)

Spec == Init /\ [][Next]_vars
SpecQuick == InitQuick /\ [][Next]_vars
SpecSmall == InitSmall /\ [][Next]_vars

NextMisuse ==
  \/ \E n \in sizes : Orderly /\ Malloc(n)
  \/ \E r \in BagToSet(live) : Orderly /\ Free(r)
  \/ \E r \in BagToSet(live) : \E n \in sizes : Orderly /\ Realloc(r, n)
  \/ \E p \in Candidates : FreeAny(p)
  \/ \E p \in Candidates : \E n \in sizes : ReallocAny(p, n)

SpecMisuse == InitMisuse /\ [][NextMisuse]_vars

SpecSame == InitSame /\ [][Next]_vars

SpecSplinter == InitSplinter /\ [][Next]_vars

NextFigures ==
  \/ \E n \in sizes : Malloc(n)
  \/ \E r \in BagToSet(live) : Free(r)
  \/ \E r \in BagToSet(live) : \E n \in sizes : Realloc(r, n)
  \/ Fragmentation
  \/ Utilization

SpecFigures == Init /\ [][NextFigures]_vars
SpecFiguresSmall == InitSmall /\ [][NextFigures]_vars

SpecGrow == InitGrow /\ [][Next]_vars

SpecBig == InitBig /\ [][Next]_vars
SpecPlain == InitPlain /\ [][Next]_vars

\* ------------------------------------------------------------- claims
\* The bytes of the block granted for request r: header to footer.
Need(r) == calculate_aligned_block_size(r.n)
Overlap(a, la, b, lb) == a < b + lb /\ b < a + la
HeldCount(b) == BagCardinality([r \in { x \in Held : BlockOf(x) = b } |-> live[r]])
FreeCount(b) ==
  Cardinality({ e \in FreeLists \X (1 .. ScanFuel) :
                  e[2] <= Len(FreeList(e[1])) /\ FreeList(e[1])[e[2]] = b })
QuickCount(b) ==
  Cardinality({ e \in QuickLists \X (1 .. ScanFuel) :
                  e[2] <= Len(QuickList(e[1])) /\ QuickList(e[1])[e[2]] = b })

\* C1: between calls the blocks the caller holds are pairwise disjoint, no
\* pointer is held twice, and no held block overlaps a block that is on a
\* free list.
C1_HeldBlocksDisjoint ==
  st = "ok" =>
    /\ \A r \in Held : CopiesIn(r, live) = 1
    /\ \A r1, r2 \in Held :
         r1 # r2 => ~Overlap(BlockOf(r1), Need(r1), BlockOf(r2), Need(r2))
    /\ \A r \in Held : \A f \in FreeMembers :
         ~Overlap(BlockOf(r), Need(r), f, BlockSize(f))

\* C2: between calls the walk from the first block after the prologue, in
\* strides of each header's block size, stops exactly on the epilogue.
C2_WalkReachesEpilogue ==
  (st = "ok" /\ hend > 0) => WalkEnd = hend - 8

\* C3: a successful allocate(n), n > 0, returns a 16-byte aligned pointer
\* to byte 8 of a block whose header has exactly the ALLOCATED flag, payload
\* field n and a block size that is a multiple of 16 and at least
\* max(32, n + 16); current_payload has grown by n.
C3_AllocatePost ==
  [][(st = "ok" /\ st' = "ok" /\ last'.op = "malloc" /\ last'.ret # NULLA) =>
       \A p \in {last'.ret} : \A n \in {last'.n} :
         /\ p % 16 = 0
         /\ (Hdr(p - 8).lo % 16)' = THIS_BLOCK_ALLOCATED
         /\ U64ofHi(PayloadField(p - 8)') = U64(n)
         /\ BlockSize(p - 8)' % 16 = 0
         /\ BlockSize(p - 8)' >= 32
         /\ n > 0 /\ BlockSize(p - 8)' >= n + 16
         /\ cur' = Add64(cur, U64(n))]_vars

\* C4: with every freed or reallocated pointer a live allocation, no call
\* reaches abort.
C4_NoAbort == st # "abort"

\* C5: between calls every block of the heap walk has exactly one owner:
\* the caller, one place of one free list, or one place of one quick list.
C5_ExclusiveOwnership ==
  st = "ok" =>
    \A b \in Blocks : HeldCount(b) + FreeCount(b) + QuickCount(b) = 1

\* C6: every member of quick list k has block size 32 + 16k and both flags
\* set, and a block with both flags set is a member of a quick list.
C6_QuickListFlags ==
  st = "ok" =>
    /\ \A k \in QuickLists : \A b \in Range(QuickList(k)) :
         BlockSize(b) = 32 + 16 * k /\ IsAllocated(b) /\ IsInQuickList(b)
    /\ \A b \in Blocks : (IsAllocated(b) /\ IsInQuickList(b)) => b \in QuickMembers

\* C7: between calls a block is a member of a free list exactly when its
\* header has neither ALLOCATED nor IN_QUICK_LIST, and every free-list member
\* has payload field 0.
C7_FreeListFlags ==
  st = "ok" =>
    /\ \A b \in Blocks \cup FreeMembers :
         (b \in FreeMembers) <=> (~IsAllocated(b) /\ ~IsInQuickList(b))
    /\ \A b \in FreeMembers : PayloadField(b) = 0

\* C8: after a call has returned no two blocks that follow each other in
\* the heap walk both have ALLOCATED clear.
C8_NoAdjacentFree ==
  st = "ok" =>
    \A j \in 1 .. Len(HeapWalk) - 2 :
      IsAllocated(HeapWalk[j]) \/ IsAllocated(HeapWalk[j + 1])

\* The size classes as the specification words them: class 0 holds size 32,
\* class i > 0 sizes in (32 * 2^(i-1), 32 * 2^i], the last class everything
\* larger.
RECURSIVE Pow2(_)
Pow2(i) == IF i = 0 THEN 1 ELSE 2 * Pow2(i - 1)
InSizeClass(s, i) ==
  IF i = 0 THEN s = 32
  ELSE IF i = NUM_FREE_LISTS - 1 THEN s > 32 * Pow2(i - 1)
  ELSE s > 32 * Pow2(i - 1) /\ s <= 32 * Pow2(i)

\* C9: every member of free list i has a block size of size class i.
C9_SizeClass ==
  st = "ok" =>
    \A i \in FreeLists : \A b \in Range(FreeList(i)) : InSizeClass(BlockSize(b), i)

RECURSIVE AllocatedPayload(_)
AllocatedPayload(walk) ==
  IF Len(walk) <= 1 THEN Zero64
  ELSE Add64(IF IsAllocated(Head(walk)) THEN U64ofHi(PayloadField(Head(walk))) ELSE Zero64,
             AllocatedPayload(Tail(walk)))

\* C10: between calls current_payload is the sum of the payload fields of
\* the blocks of the heap walk that have ALLOCATED set, quick-list blocks
\* included.
C10_PayloadSum ==
  st = "ok" => cur = AllocatedPayload(HeapWalk)

\* C11: peak_payload is a high-water mark: after every call that returns,
\* peak_payload >= current_payload, and no call makes peak_payload smaller.
C11_PeakHighWater ==
  [][st' = "ok" => (~UGT(cur', peak') /\ ~UGT(peak, peak'))]_vars

\* C12: allocate(0) returns null and changes nothing: not the error sink,
\* not the heap (an empty heap stays empty), not a list, not a counter.
C12_AllocateZero ==
  [][(st = "ok" /\ last'.op = "malloc" /\ last'.n = 0) =>
       /\ last'.ret = NULLA
       /\ UNCHANGED <<mem, ql, hend, cur, peak, errno, st, live>>]_vars
\* allocate(0) has returned on a heap that was never bootstrapped
C12_Witness ==
  last.op = "malloc" /\ last.n = 0 /\ last.ret = NULLA /\ hend = 0 /\ st = "ok"

\* The words of the block granted for request r.
HeldWords(r) == { BlockOf(r) + 8 * k : k \in 0 .. (Need(r) \div 8) - 1 }
WordAt(a) == Load(Machine, a)
\* Where the free block that absorbs newly acquired pages starts at the latest.
OldEnd == IF hend = 0 THEN 40 ELSE hend - 8

\* C13: an allocate(n), n > 0, that fails because the page provider refuses
\* to grow a bootstrapped heap returns null with the error sink set to
\* out-of-memory; the pages acquired during the call form one free block on
\* a free list that ends at the epilogue; current_payload, peak_payload and
\* every word of every caller-held block are unchanged.
C13_OutOfMemory ==
  [][(st = "ok" /\ last'.op = "malloc" /\ last'.n # 0 /\ last'.ret = NULLA
        /\ st' = "ok" /\ hend' > 0) =>
       /\ errno' = ENOMEM
       /\ cur' = cur /\ peak' = peak
       /\ \A r \in Held : \A a \in HeldWords(r) : WordAt(a)' = WordAt(a)
       /\ hend' > hend =>
            \E b \in FreeMembers' :
              /\ ~IsAllocated(b)'
              /\ b + BlockSize(b)' = hend' - 8
              /\ b <= OldEnd]_vars

\* C14: when the page provider refuses the very first page, allocate(n),
\* n > 0, returns null with the error sink set to out-of-memory, touches
\* no memory and leaves the process running.
C14_BootstrapFailure ==
  [][(st = "ok" /\ hend = 0 /\ cap = 0 /\ last'.op = "malloc" /\ last'.n # 0) =>
       /\ st' = "ok"
       /\ last'.ret = NULLA
       /\ errno' = ENOMEM
       /\ mem' = mem /\ hend' = 0]_vars

\* The requests n for which n + 16, rounded up to 16, exceeds SIZE_MAX.
Overflows(n) == n < 0 /\ n + 8 + 8 + 15 >= 0

\* C15: allocate(n) for an n whose aligned-size computation overflows
\* returns null with the error sink set to invalid-argument and allocates
\* nothing.
C15_OverflowRejected ==
  [][(st = "ok" /\ last'.op = "malloc" /\ Overflows(last'.n)) =>
       /\ st' = "ok"
       /\ last'.ret = NULLA
       /\ errno' = EINVAL
       /\ UNCHANGED <<mem, ql, hend, cur, peak, live>>]_vars

\* C16: free of a pointer whose block is on a free list or on a quick list
\* aborts the process.
C16_DoubleFreeAborts ==
  [][(st = "ok" /\ last'.op = "xfree" /\ last'.p \in StalePointers) =>
       st' = "abort"]_vars

\* C17: free of a non-null pointer below prologue_end + 8 or at or above the
\* epilogue aborts the process; the prologue's payload address is such a
\* pointer.
C17_OutOfRangeFreeAborts ==
  [][(st = "ok" /\ last'.op = "xfree" /\ last'.p # NULLA
        /\ (last'.p < 40 + 8 \/ last'.p >= hend - 8)) =>
       st' = "abort"]_vars

\* C18: free of a non-null pointer that is not 16-byte aligned aborts the
\* process, whatever the memory at that address holds.
C18_MisalignedFreeAborts ==
  [][(st = "ok" /\ last'.op = "xfree" /\ last'.p # NULLA /\ last'.p % 16 # 0) =>
       st' = "abort"]_vars

\* The validation of free, as the specification words it: the pointer is
\* 16-byte aligned and lies in [prologue_end + 8, epilogue_start), the header
\* before it has block_size >= 32, a multiple of 16, ALLOCATED set and
\* IN_QUICK_LIST clear, and the block lies within the heap.
ValidPointer(p) ==
  /\ p % 16 = 0
  /\ p >= 40 + 8 /\ p < hend - 8
  /\ BlockSize(p - 8) >= 32
  /\ BlockSize(p - 8) % 16 = 0
  /\ IsAllocated(p - 8)
  /\ ~IsInQuickList(p - 8)
  /\ p - 8 + BlockSize(p - 8) <= hend - 8

\* C19: reallocate(p, n), n > 0, for a pointer that fails the validation of
\* free returns null with the error sink set to invalid-argument and leaves
\* the heap, the lists and both counters unchanged.
C19_ReallocRejectsInvalid ==
  [][(st = "ok" /\ last'.op = "xrealloc" /\ last'.n # 0 /\ last'.p # NULLA
        /\ ~ValidPointer(last'.p)) =>
       /\ st' = "ok"
       /\ last'.ret = NULLA
       /\ errno' = EINVAL
       /\ UNCHANGED <<mem, ql, hend, cur, peak>>]_vars

\* What current_payload is after old bytes of payload became n bytes.
Recount(old, n) == Add64(Sub64(cur, U64ofHi(old)), U64(n))

\* C20: reallocate(p, n) on a live block whose block size is the aligned
\* size of n returns p, sets the header's payload field to n, changes
\* current_payload by n minus the old payload field, raises peak_payload to
\* it if it is larger, and changes no other word of the heap, no list and
\* no block size.
C20_ReallocSameSize ==
  [][(/\ st = "ok" /\ last'.op = "realloc" /\ last'.n # 0 /\ ~Overflows(last'.n)
      /\ IsAllocated(last'.p - 8) /\ ~IsInQuickList(last'.p - 8)
      /\ BlockSize(last'.p - 8) = calculate_aligned_block_size(last'.n)) =>
       \A p \in {last'.p} : \A n \in {last'.n} :
         /\ st' = "ok"
         /\ last'.ret = p
         /\ PayloadField(p - 8)' = n
         /\ BlockSize(p - 8)' = BlockSize(p - 8)
         /\ IsAllocated(p - 8)' /\ ~IsInQuickList(p - 8)'
         /\ cur' = Recount(PayloadField(p - 8), n)
         /\ peak' = IF UGT(cur', peak) THEN cur' ELSE peak
         /\ \A a \in (DOMAIN mem \cup DOMAIN mem') \ {p - 8} : WordAt(a)' = WordAt(a)
         /\ UNCHANGED <<ql, hend, errno>>]_vars
\* reallocate(p, 200) has returned p for the only block ever handed out,
\* which was allocated with 208 bytes of payload
C20_Witness ==
  /\ st = "ok" /\ last.op = "realloc" /\ last.n = 200 /\ last.ret = last.p
  /\ nalloc = 1 /\ Held = {[p |-> last.p, n |-> 200]}
  /\ PayloadField(last.p - 8) = 200
  /\ cur = U64(200) /\ peak = U64(208)

\* The call just made was reallocate(p, n), n > 0, on a block that was
\* allocated and on no quick list.
ReallocOfLive ==
  /\ st = "ok" /\ last'.op = "realloc" /\ last'.n # 0 /\ ~Overflows(last'.n)
  /\ IsAllocated(last'.p - 8) /\ ~IsInQuickList(last'.p - 8)
\* The index of the free list that holds b, or -1.
ListOf(b) == IF \E i \in FreeLists : b \in Range(FreeList(i))
               THEN CHOOSE i \in FreeLists : b \in Range(FreeList(i))
               ELSE -1
IsFreeBlock(b) == Mapped(Machine, b) /\ ~IsAllocated(b) /\ b \in FreeMembers

\* C21: reallocate(p, n) that leaves 32 bytes or more of the block unused
\* returns p, leaves the block allocated with the aligned size of n and
\* payload field n, and makes the tail a free block, merged with the block
\* after it if that was free, on the free list of its size class and on no
\* quick list.
C21_ReallocShrinkSplits ==
  [][(/\ ReallocOfLive
      /\ BlockSize(last'.p - 8) - calculate_aligned_block_size(last'.n) >= 32) =>
       \A b \in {last'.p - 8} : \A need \in {calculate_aligned_block_size(last'.n)} :
       \A succ \in {b + BlockSize(b)} :
       \A tail \in {IF IsFreeBlock(succ)
                      THEN BlockSize(b) - need + BlockSize(succ)
                      ELSE BlockSize(b) - need} :
         /\ st' = "ok"
         /\ last'.ret = b + 8
         /\ BlockSize(b)' = need
         /\ IsAllocated(b)' /\ ~IsInQuickList(b)'
         /\ PayloadField(b)' = last'.n
         /\ IsFreeBlock(b + need)'
         /\ BlockSize(b + need)' = tail
         /\ FreeCount(b + need)' = 1
         /\ InSizeClass(tail, ListOf(b + need)')
         /\ succ \notin FreeMembers'
         /\ ql' = ql
         /\ QuickCount(b + need)' = 0]_vars

\* C22: reallocate(p, n) that leaves 16 bytes of the block unused returns p
\* and rewrites the block's header only: the block size and the ALLOCATED
\* flag stay, the payload field becomes n, current_payload moves by n minus
\* the old payload field, and no other word of the heap and no list
\* changes.
C22_ReallocShrinkSplinter ==
  [][(/\ ReallocOfLive
      /\ BlockSize(last'.p - 8) - calculate_aligned_block_size(last'.n) = 16) =>
       \A b \in {last'.p - 8} :
         /\ st' = "ok"
         /\ last'.ret = b + 8
         /\ BlockSize(b)' = BlockSize(b)
         /\ IsAllocated(b)' /\ ~IsInQuickList(b)'
         /\ PayloadField(b)' = last'.n
         /\ cur' = Recount(PayloadField(b), last'.n)
         /\ peak' = IF UGT(cur', peak) THEN cur' ELSE peak
         /\ \A a \in (DOMAIN mem \cup DOMAIN mem') \ {b} : WordAt(a)' = WordAt(a)
         /\ FreeLists' = FreeLists
         /\ \A i \in FreeLists : FreeList(i)' = FreeList(i)
         /\ \A k \in QuickLists : QuickList(k)' = QuickList(k)
         /\ UNCHANGED <<ql, hend, errno>>]_vars
\* reallocate(p, 64) has returned p for a block allocated with 80 bytes of
\* payload, which still has its 96 bytes
C22_Witness ==
  /\ st = "ok" /\ last.op = "realloc" /\ last.n = 64 /\ last.ret = last.p
  /\ nalloc = 1 /\ Held = {[p |-> last.p, n |-> 64]}
  /\ BlockSize(last.p - 8) = 96 /\ PayloadField(last.p - 8) = 64
  /\ cur = U64(64) /\ peak = U64(80)
  /\ FreeMembers = {last.p - 8 + 96}

\* The first k bytes (k in 0 .. 8) of word w, little endian.
LowBytes(w, k) ==
  IF k >= 8 THEN w
  ELSE IF k >= 4 THEN Word(w.hi % (256 ^ (k - 4)), w.lo)
  ELSE Word(0, w.lo % (256 ^ k))
\* The first n bytes at address a, as they are now, word by word.
Bytes(a, n) == [i \in 0 .. ((n + 7) \div 8) - 1 |-> LowBytes(WordAt(a + 8 * i), n - 8 * i)]
MaxQuickSize == 32 + 16 * (NUM_QUICK_LISTS - 1)
\* Block b is where free(b + 8) leaves a block of the given size: first on
\* the quick list of its size, or inside a free block of a free list.
Released(b, size) ==
  IF size <= MaxQuickSize
    THEN /\ QuickList((size - 32) \div 16) # <<>>
         /\ Head(QuickList((size - 32) \div 16)) = b
         /\ IsAllocated(b) /\ IsInQuickList(b) /\ BlockSize(b) = size
    ELSE \E f \in FreeMembers :
           /\ ~IsAllocated(f)
           /\ f <= b /\ b + size <= f + BlockSize(f)

\* C23: reallocate(p, n) that needs a larger block and returns a pointer
\* returns a block other than p, allocated with payload field n, whose first
\* old_payload bytes are the bytes that p's payload held before the call;
\* p's block is where free(p) puts it, and current_payload has moved by n
\* minus the old payload field.
C23_ReallocGrowMoves ==
  [][(/\ ReallocOfLive
      /\ BlockSize(last'.p - 8) < calculate_aligned_block_size(last'.n)
      /\ st' = "ok" /\ last'.ret # NULLA) =>
       \A b \in {last'.p - 8} : \A q \in {last'.ret} : \A old \in {PayloadField(b)} :
         /\ q # b + 8
         /\ IsAllocated(q - 8)' /\ ~IsInQuickList(q - 8)'
         /\ PayloadField(q - 8)' = last'.n
         /\ BlockSize(q - 8)' >= calculate_aligned_block_size(last'.n)
         /\ Bytes(q, old)' = Bytes(b + 8, old)
         /\ Released(b, BlockSize(b))'
         /\ cur' = Recount(old, last'.n)]_vars

\* C24: reallocate(p, n) that needs a larger block and returns null has set
\* the error to ENOMEM and has left p's block as it was: the header with its
\* ALLOCATED flag and payload field, every word of the block, and
\* current_payload.
C24_ReallocGrowFails ==
  [][(/\ ReallocOfLive
      /\ BlockSize(last'.p - 8) < calculate_aligned_block_size(last'.n)
      /\ st' = "ok" /\ last'.ret = NULLA) =>
       \A b \in {last'.p - 8} :
         /\ errno' = ENOMEM
         /\ Hdr(b)' = Hdr(b)
         /\ IsAllocated(b)' /\ ~IsInQuickList(b)'
         /\ \A k \in 0 .. (BlockSize(b) \div 8) - 1 : WordAt(b + 8 * k)' = WordAt(b + 8 * k)
         /\ cur' = cur
         /\ live' = live]_vars

\* The sums of the payload fields and of the block sizes over the blocks of
\* a heap walk that have ALLOCATED set, each block once.
RECURSIVE AllocatedSums(_)
AllocatedSums(walk) ==
  IF Len(walk) <= 1 THEN <<0, 0>>
  ELSE Let(AllocatedSums(Tail(walk)), [t \in Any |->
       IF IsAllocated(Head(walk))
         THEN <<t[1] + PayloadField(Head(walk)), t[2] + BlockSize(Head(walk))>>
         ELSE t])

\* C25: fragmentation returns the sum of the payload fields over the sum of
\* the block sizes of the blocks of the heap walk that have ALLOCATED set,
\* each counted once, 0.0 when there is none, and changes nothing.
C25_Fragmentation ==
  [][(st = "ok" /\ last'.op = "fragmentation") =>
       /\ st' = "ok"
       /\ \A t \in {AllocatedSums(HeapWalk)} :
            last'.val = IF t[2] = 0 THEN <<0, 1>> ELSE Quotient(t[1], t[2])
       /\ UNCHANGED <<mem, ql, hend, cur, peak, errno, live>>]_vars

\* C26: peak_payload never exceeds the size of the heap, and utilization
\* returns 0.0 for the empty heap and otherwise peak_payload over the size
\* the heap has at the call, a value between 0 and 1, and changes nothing.
C26_Utilization ==
  [][st' = "ok" =>
       /\ ~UGT(peak', U64(hend'))
       /\ (st = "ok" /\ last'.op = "utilization") =>
            /\ last'.val = IF hend = 0 THEN <<0, 1>>
                           ELSE Quotient(peak[1] + Limb * peak[2], hend)
            /\ last'.val[1] <= last'.val[2]
            /\ UNCHANGED <<mem, ql, hend, cur, peak, errno, live>>]_vars

\* The call just made was allocate(n), it returned a block without growing
\* the heap, and that block was on a free list, as a free block, when the
\* call began.
MallocTookFree ==
  /\ st = "ok" /\ last'.op = "malloc" /\ ~Overflows(last'.n)
  /\ st' = "ok" /\ last'.ret # NULLA
  /\ hend > 0 /\ hend' = hend /\ IsFreeBlock(last'.ret - 8)

\* C27: allocate that takes a free block with fewer than 32 bytes to spare
\* hands out the whole block: header and footer record the size the free
\* block had.
C27_NoSplitKeepsSize ==
  [][(/\ MallocTookFree
      /\ BlockSize(last'.ret - 8) - calculate_aligned_block_size(last'.n) < 32) =>
       \A b \in {last'.ret - 8} : \A B \in {BlockSize(b)} :
         /\ IsAllocated(b)' /\ ~IsInQuickList(b)'
         /\ BlockSize(b)' = B
         /\ WordAt(b + B - 8)' = WordAt(b)']_vars

\* The machine at the point where allocate(n) has selected its block, after
\* the heap was set up and grown as far as the request needed: ret is the
\* block selected, or NULL.
Selection(n) ==
  Let(IF hend = 0 THEN initialize_heap_during_first_call_to_sf_malloc(Machine) ELSE Machine,
      [m1 \in Any |->
  Let(calculate_aligned_block_size(n), [need \in Any |->
  ExtendUntilFit(find_first_free_block_that_fits(m1, need), need)])])
SelectedSize(sel) == MaskLow4(XorMagic(Load(sel, sel.ret)).lo)

RECURSIVE ScanOrderFrom(_)
ScanOrderFrom(i) ==
  IF i >= NUM_FREE_LISTS THEN <<>> ELSE FreeList(i) \o ScanOrderFrom(i + 1)
ScanOrder(need) == ScanOrderFrom(get_free_list_index_for_size(need))
Fits(scan, need) == { j \in 1 .. Len(scan) : BlockSize(scan[j]) >= need }
FirstFit(scan, need) == scan[CHOOSE j \in Fits(scan, need) : \A k \in Fits(scan, need) : j <= k]

C30_FreeListLifo ==
  [][(st = "ok" /\ st' = "ok") =>
       \A i \in FreeLists :
         \A old \in {FreeList(i)} : \A new \in {FreeList(i)'} :
         \A kept \in {{ x \in Range(old) \cap Range(new) : BlockSize(x)' = BlockSize(x) }} :
         \A stayed \in {SelectSeq(old, LAMBDA x : x \in kept)} :
         \A fresh \in {Len(new) - Len(stayed)} :
           /\ fresh >= 0
           /\ SubSeq(new, fresh + 1, Len(new)) = stayed
           /\ \A j \in 1 .. fresh : new[j] \notin kept]_vars

\* The call just made was free(p) on a block that was allocated and on no
\* quick list.
FreeOfLive ==
  /\ st = "ok" /\ last'.op = "free"
  /\ IsAllocated(last'.p - 8) /\ ~IsInQuickList(last'.p - 8)
  /\ BlockSize(last'.p - 8) >= 32
QuickIndex(size) == (size - 32) \div 16

InFreeBlock(b, size) ==
  \E f \in FreeMembers :
    /\ ~IsAllocated(f) /\ ~IsInQuickList(f)
    /\ f <= b /\ b + size <= f + BlockSize(f)

\* C32: no quick list ever holds more than QUICK_LIST_MAX blocks; free of a
\* live block whose quick list is full returns, leaves the freed block as
\* the only member of that list, and leaves every former member inside a
\* free block of a free list, its flags cleared.
C32_FreeFlushesFullList ==
  [][st = "ok" =>
       /\ st' = "ok" => \A k \in QuickLists : ql'[k].length <= QUICK_LIST_MAX
       /\ (/\ FreeOfLive
           /\ BlockSize(last'.p - 8) <= MaxQuickSize
           /\ ql[QuickIndex(BlockSize(last'.p - 8))].length >= QUICK_LIST_MAX) =>
            \A b \in {last'.p - 8} : \A size \in {BlockSize(b)} : \A k \in {QuickIndex(size)} :
              /\ st' = "ok"
              /\ ql'[k].length = 1
              /\ QuickList(k)' = <<b>>
              /\ IsAllocated(b)' /\ IsInQuickList(b)'
              /\ \A f \in Range(QuickList(k)) : InFreeBlock(f, size)']_vars

\* The free-list members that end where block b begins, and those that begin
\* where a block of the given size at b ends.
FreeBefore(b) == { f \in FreeMembers : IsFreeBlock(f) /\ f + BlockSize(f) = b }
FreeAfter(b, size) == { s \in FreeMembers : IsFreeBlock(s) /\ s = b + size }
SumSizes(S) == BagCardinality([f \in S |-> BlockSize(f)])

\* C33: free of a live block too large for a quick list returns and leaves
\* one free block made of the block and of the free-list members right
\* before and right after it, and of nothing else: its size is the sum of
\* the sizes, it is once on the free list of its class, the members taken in
\* are off the free lists, and the quick lists are as they were.
C33_FreeCoalesces ==
  [][(FreeOfLive /\ BlockSize(last'.p - 8) > MaxQuickSize) =>
       \A b \in {last'.p - 8} : \A size \in {BlockSize(b)} :
       \A before \in {FreeBefore(b)} : \A after \in {FreeAfter(b, size)} :
       \A start \in {IF before = {} THEN b ELSE CHOOSE f \in before : TRUE} :
       \A total \in {size + SumSizes(before) + SumSizes(after)} :
         /\ st' = "ok"
         /\ IsFreeBlock(start)'
         /\ ~IsInQuickList(start)'
         /\ BlockSize(start)' = total
         /\ PayloadField(start)' = 0
         /\ WordAt(start + total - 8)' = WordAt(start)'
         /\ FreeCount(start)' = 1
         /\ InSizeClass(total, ListOf(start)')
         /\ FreeMembers' = (FreeMembers \ (before \cup after)) \cup {start}
         /\ ql' = ql
         /\ hend' = hend]_vars

\* The free-list members that end at the epilogue.
Trailing == { t \in FreeMembers : IsFreeBlock(t) /\ t + BlockSize(t) = hend - 8 }
\* The word at a is an epilogue: size 8, ALLOCATED, nothing else.
IsEpilogue(a) == Hdr(a) = Word(0, 8 + THIS_BLOCK_ALLOCATED)

\* C34: allocate that grows a heap that was set up grows it by whole pages
\* and writes an ALLOCATED epilogue in the last word; the free block made of
\* the new pages begins at the old epilogue, or at the trailing block when
\* that was a free-list member, and has the size of the pages plus that of
\* the trailing block taken in: it is on a free list when the call fails,
\* and otherwise it is the block returned, followed by what is left of it.
C34_ExtendHeap ==
  [][(/\ st = "ok" /\ last'.op = "malloc" /\ ~Overflows(last'.n)
      /\ st' = "ok" /\ hend > 0 /\ hend' > hend) =>
       \A start \in {IF Trailing = {} THEN hend - 8 ELSE CHOOSE t \in Trailing : TRUE} :
       \A total \in {hend' - hend + SumSizes(Trailing)} :
       \A end \in {hend'} :
         /\ (end - hend) % PAGE_SZ = 0
         /\ IsEpilogue(end - 8)'
         /\ start + total = end - 8
         /\ IF last'.ret = NULLA
              THEN /\ IsFreeBlock(start)'
                   /\ BlockSize(start)' = total
                   /\ WordAt(start + total - 8)' = WordAt(start)'
                   /\ FreeCount(start)' = 1
                   /\ InSizeClass(total, ListOf(start)')
              ELSE /\ last'.ret = start + 8
                   /\ IsAllocated(start)'
                   /\ \A size \in {BlockSize(start)'} :
                        \/ size = total
                        \/ /\ IsFreeBlock(start + size)'
                           /\ BlockSize(start + size)' = total - size
                           /\ FreeCount(start + size)' = 1]_vars

\* The number of pages that hold s bytes.
PagesFor(s) == (s + PAGE_SZ - 1) \div PAGE_SZ

\* C35: a call never shrinks the heap and changes its end by whole pages;
\* allocate leaves the heap bounds alone when a free-list block of at least
\* the needed size exists before the call, and otherwise adds the fewest
\* pages that bring the trailing free block to the needed size (fewer when
\* the page provider gives out and the call fails).  The first page of a
\* heap contributes 48 bytes less than a page.
C35_HeapGrowth ==
  [][(st = "ok" /\ st' = "ok") =>
       /\ hend' >= hend
       /\ (hend' - hend) % PAGE_SZ = 0
       /\ (last'.op = "malloc" /\ last'.n > 0) =>
            \A need \in {calculate_aligned_block_size(last'.n)} :
              IF hend > 0 /\ \E f \in FreeMembers : IsFreeBlock(f) /\ BlockSize(f) >= need
                THEN hend' = hend
                ELSE \A have \in {IF hend = 0 THEN 0 - 48 ELSE SumSizes(Trailing)} :
                     \A k \in {PagesFor(need - have)} :
                       IF last'.ret # NULLA
                         THEN hend' = hend + k * PAGE_SZ
                         ELSE hend' < hend + k * PAGE_SZ]_vars
\* allocate(5000) on a heap of one page whose trailing free block is 3824
\* bytes long has added one page and no more
C35_Witness ==
  /\ st = "ok" /\ last.op = "malloc" /\ last.n = 5000 /\ last.ret = 272
  /\ hend = 2 * PAGE_SZ /\ nalloc = 2
  /\ IsFreeBlock(264 + 5024) /\ BlockSize(264 + 5024) = 2896

C37_CallsReturn ==
  [][(st = "ok" /\ last'.op \in {"malloc", "free", "realloc"}) => st' = "ok"]_vars

RECURSIVE HeldPayload(_)
HeldPayload(b) ==
  IF BagToSet(b) = {} THEN Zero64
  ELSE Let(CHOOSE r \in BagToSet(b) : TRUE, [r \in Any |->
       Add64(U64(r.n), HeldPayload(b (-) SetToBag({r})))])

\* C39: between calls current_payload is the sum of the sizes last
\* requested for the blocks the caller holds; blocks on quick lists and on
\* free lists add nothing to it.
C39_CurrentPayload == st = "ok" => cur = HeldPayload(live)

====
